---- MODULE Spec2Model ----
(***************************************************************************)
(* Model of drivers/platform/linux/linux_gpio.c: the sysfs GPIO backend.   *)
(*                                                                         *)
(* The program state is the caller's handle slots, the heap blocks of the  *)
(* descriptors, and the part of the host the driver acts on: the process's *)
(* file-descriptor table and the kernel's sysfs GPIO state.  Every driver  *)
(* function is one action; inside it the system calls run in the order of  *)
(* the source, each threading a machine record m (the host and heap state, *)
(* the log of calls made so far, and the value the last call returned).    *)
(***************************************************************************)
EXTENDS Integers, Sequences, FiniteSets, TLC

\* ------------------------------------------------------------------ bounds
MaxHandles == 2
MaxFd == 5
MaxOff == 2

\* --------------------------------------------------------- program constants
NULL == 0

SUCCESS == "SUCCESS"
FAILURE == "FAILURE"
GPIO_LOW == "GPIO_LOW"
GPIO_HIGH == "GPIO_HIGH"
O_WRONLY == "O_WRONLY"

Handles == 1..MaxHandles
\* Descriptors 0..2 are the standard streams.
FdNums == 3..MaxFd
Slots == {"a"}

\* GPIO numbers the kernel knows, and the numbers callers ask for.
KernelPins == {17}
Pins == KernelPins \cup {23}

\* ASCII
Ch0 == 48
Ch1 == 49
ChNUL == 0
ChNL == Ch0 - 38
ChMinus == Ch0 - 3
StrIn == <<105, 110, ChNUL>>
StrOut == <<111, 117, 116, ChNUL>>
StrHigh == <<Ch1, ChNUL>>
StrLow == <<Ch0, ChNUL>>
\* What an uninitialised char may hold.
Garbage == {ChNUL, Ch0, Ch1}

VARIABLES
  fds,            \* the process's descriptor table: FdNums -> open file or Closed
  exported,       \* the GPIO numbers with a /sys/class/gpio/gpio<N> directory
  dir,            \* per pin: "in" or "out"
  outv,           \* per pin: the level driven when the pin is an output
  wire,           \* per pin: the level the outside applies to the line
  heap,           \* allocated blocks: <<"desc", h>> and <<"extra", h>>
  hnd,            \* per handle: number, direction_fd, value_fd
  callerDesc,     \* the caller's gpio_desc* variables
  callerValue,    \* the caller's uint8_t read by gpio_get_value
  last            \* the call that ran last: its arguments, log and result

vars == <<fds, exported, dir, outv, wire, heap, hnd, callerDesc, callerValue,
          last>>

Closed == [kind |-> "none", pin |-> -1, mode |-> "none", off |-> 0]
NoFields == [number |-> 0, direction_fd |-> -1, value_fd |-> -1]

\* ------------------------------------------------------------ conversions
RECURSIVE DecNat(_)
DecNat(n) == IF n < 10 THEN <<Ch0 + n>> ELSE Append(DecNat(n \div 10), Ch0 + (n % 10))

\* sprintf(path, "%d", number)
Dec(n) == IF n < 0 THEN <<ChMinus>> \o DecNat(-n) ELSE DecNat(n)

IsDigit(c) == c >= Ch0 /\ c <= Ch0 + 9

RECURSIVE DigitsVal(_)
DigitsVal(s) ==
  IF s = <<>> THEN 0 ELSE DigitsVal(SubSeq(s, 1, Len(s) - 1)) * 10 + (s[Len(s)] - Ch0)

\* The kernel's reading of a written buffer as a C string: up to the first NUL.
RECURSIVE CStr(_)
CStr(s) == IF s = <<>> \/ Head(s) = ChNUL THEN <<>> ELSE <<Head(s)>> \o CStr(Tail(s))

\* kstrtol: a non-empty run of digits, one trailing newline allowed; -1 otherwise.
ParseDec(s) ==
  LET t == IF s # <<>> /\ s[Len(s)] = ChNL THEN SubSeq(s, 1, Len(s) - 1) ELSE s
  IN IF t # <<>> /\ \A i \in 1..Len(t) : IsDigit(t[i]) THEN DigitsVal(t) ELSE -1

\* ------------------------------------------------------------------- host
Level(m, p) == IF m.dir[p] = "out" THEN m.outv[p] ELSE wire[p]

\* The text the kernel shows in gpio<N>/value.
ValueText(m, p) == <<Ch0 + Level(m, p), ChNL>>

IsOpen(m, fd) == fd \in FdNums /\ m.fds[fd] # Closed

Log(m, call, obj, fd, arg, ret) ==
  Append(m.trace, [call |-> call, obj |-> obj, fd |-> fd, arg |-> arg, ret |-> ret])

ObjOf(m, fd) == IF fd \in FdNums THEN m.fds[fd].kind ELSE "none"

LowestFree(m) ==
  IF \E fd \in FdNums : m.fds[fd] = Closed
  THEN CHOOSE fd \in FdNums : m.fds[fd] = Closed /\ \A g \in FdNums : g < fd => m.fds[g] # Closed
  ELSE -1

\* What open leaves: the descriptor fd now names the file, or -1 is returned.
Opened(m, path, flags, fd, ok, fault) ==
  IF ok
  THEN [m EXCEPT !.fds[fd] = [kind |-> path.kind, pin |-> ParseDec(path.name),
                              mode |-> flags, off |-> 0],
                 !.ret = fd, !.faulted = @ \/ fault,
                 !.trace = Log(m, "open", path.kind, fd, path.name, fd)]
  ELSE [m EXCEPT !.ret = -1, !.faulted = @ \/ fault,
                 !.trace = Log(m, "open", path.kind, -1, path.name, -1)]

\* open(path, flags): path is [kind, name], name the digits of gpio<N>.  The
\* attribute files exist while the pin is exported.
SysOpen(m, path, flags, fault) ==
  Opened(m, path, flags, LowestFree(m),
         /\ ~fault
         /\ LowestFree(m) # -1
         /\ \/ path.kind \in {"export", "unexport"}
            \/ path.kind \in {"direction", "value"} /\ ParseDec(path.name) \in m.exported,
         fault)

\* close(fd): on Linux the descriptor is released even when close reports an error.
SysClose(m, fd, fault) ==
  IF IsOpen(m, fd)
  THEN [m EXCEPT !.fds[fd] = Closed, !.ret = IF fault THEN -1 ELSE 0,
                 !.faulted = @ \/ fault,
                 !.trace = Log(m, "close", ObjOf(m, fd), fd, <<>>, IF fault THEN -1 ELSE 0)]
  ELSE [m EXCEPT !.ret = -1, !.faulted = @ \/ fault,
                 !.trace = Log(m, "close", ObjOf(m, fd), fd, <<>>, -1)]

Min(a, b) == IF a < b THEN a ELSE b

\* The kernel takes the text: the number of bytes is returned.
Taken(m, buf) == [m EXCEPT !.ret = Len(buf)]

\* The kernel refuses the text.
Refused(m) == [m EXCEPT !.ret = -1]

\* The kernel's store method of each attribute.  export and unexport parse the
\* buffer as a number; direction and value compare or parse it as a C string.
Store(m, f, buf) ==
  CASE f.kind = "export" ->
         IF ParseDec(buf) \in KernelPins /\ ParseDec(buf) \notin m.exported
         THEN Taken([m EXCEPT !.exported = @ \cup {ParseDec(buf)}], buf)
         ELSE Refused(m)
    [] f.kind = "unexport" ->
         IF ParseDec(buf) \in m.exported
         THEN Taken([m EXCEPT !.exported = @ \ {ParseDec(buf)}], buf)
         ELSE Refused(m)
    [] f.kind = "direction" ->
         IF f.pin \notin m.exported THEN Refused(m)
         ELSE IF CStr(buf) = CStr(StrOut)
         THEN Taken([m EXCEPT !.dir[f.pin] = "out", !.outv[f.pin] = 0], buf)
         ELSE IF CStr(buf) = CStr(StrIn)
         THEN Taken([m EXCEPT !.dir[f.pin] = "in"], buf)
         ELSE Refused(m)
    [] f.kind = "value" ->
         IF f.pin \in m.exported /\ m.dir[f.pin] = "out" /\ ParseDec(CStr(buf)) >= 0
         THEN Taken([m EXCEPT !.outv[f.pin] = IF ParseDec(CStr(buf)) = 0 THEN 0 ELSE 1], buf)
         ELSE Refused(m)
    [] OTHER -> Refused(m)

\* What write leaves: the offset moved by the bytes taken, the call logged.
Written(m, obj, fd, buf, fault) ==
  IF m.ret >= 0
  THEN [m EXCEPT !.fds[fd].off = Min(@ + Len(buf), MaxOff), !.faulted = @ \/ fault,
                 !.trace = Log(m, "write", obj, fd, buf, m.ret)]
  ELSE [m EXCEPT !.faulted = @ \/ fault, !.trace = Log(m, "write", obj, fd, buf, m.ret)]

\* write(fd, buf, len): buf holds the len bytes handed over.
SysWrite(m, fd, buf, fault) ==
  Written(IF ~fault /\ IsOpen(m, fd) THEN Store(m, m.fds[fd], buf) ELSE Refused(m),
          ObjOf(m, fd), fd, buf, fault)

\* Whether read(fd, ...) is served: the descriptor is open, was not opened
\* O_WRONLY (read then fails with EBADF), and its pin is still exported.
CanRead(m, fd) ==
  /\ IsOpen(m, fd)
  /\ m.fds[fd].mode # O_WRONLY
  /\ m.fds[fd].kind = "value"
  /\ m.fds[fd].pin \in m.exported

\* What read leaves: count bytes of txt from the offset on, in data.
ReadDone(m, fd, txt, count, fault) ==
  IF count = 1
  THEN [m EXCEPT !.data = txt[m.fds[fd].off + 1],
                 !.fds[fd].off = Min(@ + 1, MaxOff),
                 !.ret = 1, !.faulted = @ \/ fault,
                 !.trace = Log(m, "read", ObjOf(m, fd), fd, <<>>, 1)]
  ELSE [m EXCEPT !.ret = count, !.faulted = @ \/ fault,
                 !.trace = Log(m, "read", ObjOf(m, fd), fd, <<>>, count)]

\* read(fd, &data, 1): data is left as it was unless a byte is delivered.
SysRead(m, fd, fault) ==
  IF fault \/ ~CanRead(m, fd) THEN ReadDone(m, fd, <<>>, -1, fault)
  ELSE IF m.fds[fd].off < Len(ValueText(m, m.fds[fd].pin))
  THEN ReadDone(m, fd, ValueText(m, m.fds[fd].pin), 1, fault)
  ELSE ReadDone(m, fd, ValueText(m, m.fds[fd].pin), 0, fault)

\* ------------------------------------------------------------------- heap
FreeHandle(m) ==
  IF \E h \in Handles : <<"desc", h>> \notin m.heap /\ <<"extra", h>> \notin m.heap
  THEN CHOOSE h \in Handles :
         /\ <<"desc", h>> \notin m.heap /\ <<"extra", h>> \notin m.heap
         /\ \A g \in Handles : g < h => (<<"desc", g>> \in m.heap \/ <<"extra", g>> \in m.heap)
  ELSE NULL

\* What malloc leaves: block <<what, h>> allocated, or NULL returned.
Malloced(m, what, h, fault) ==
  IF h # NULL
  THEN [m EXCEPT !.heap = @ \cup {<<what, h>>}, !.ret = h, !.faulted = @ \/ fault,
                 !.trace = Log(m, "malloc", what, -1, <<>>, h)]
  ELSE [m EXCEPT !.ret = NULL, !.faulted = @ \/ fault,
                 !.trace = Log(m, "malloc", what, -1, <<>>, NULL)]

\* malloc(sizeof(*descriptor))
MallocDesc(m, fault) == Malloced(m, "desc", IF fault THEN NULL ELSE FreeHandle(m), fault)

\* malloc(sizeof(struct linux_gpio_desc)), the extra block of descriptor h
MallocExtra(m, h, fault) == Malloced(m, "extra", IF fault THEN NULL ELSE h, fault)

Free(m, what, h) ==
  [m EXCEPT !.heap = @ \ {<<what, h>>},
            !.hnd[h] = IF what = "desc" THEN NoFields ELSE @,
            !.trace = Log(m, "free", what, -1, <<>>, h)]

Machine ==
  [fds |-> fds, exported |-> exported, dir |-> dir, outv |-> outv, heap |-> heap,
   hnd |-> hnd, trace |-> <<>>, ret |-> 0, data |-> ChNUL,
   faulted |-> FALSE]

\* ----------------------------------------------------------------- driver
\* Each function is a chain of steps: a step takes the machine as the call
\* before it left it, tests that call's result as the source does and either
\* returns or makes the next call.  f is the call at which the host fails on
\* its own account (0: none), counted in the order of the source.
Done(m, status, wrote, out) ==
  [m |-> m, status |-> status, inner |-> status, wrote |-> wrote, out |-> out]

\* gpio_get, label free_desc
GetFreeDesc(m, h) == Done(Free(m, "desc", h), FAILURE, FALSE, NULL)

\* gpio_get, label free
GetFree(m, h) == GetFreeDesc(Free(m, "extra", h), h)

\* Mutant of GetClose: the direction slot is not closed before the blocks are freed.
GetClose_noclose(m, h) == GetFree(m, h)

\* gpio_get, label close
GetClose(m, h) == GetFree(SysClose(m, m.hnd[h].direction_fd, FALSE), h)

ExportPath == [kind |-> "export", name |-> <<>>]
UnexportPath == [kind |-> "unexport", name |-> <<>>]
\* sprintf(path, "/sys/class/gpio/gpio%d/direction", number) and .../value
AttrPath(kind, number) == [kind |-> kind, name |-> Dec(number)]

\* len = sprintf(path, "%d", number): the len bytes of path handed to write
NumberText(number) == SubSeq(Dec(number), 1, Len(Dec(number)))

\* linux_desc->direction_fd = open(...)
SetDirectionFd(m, h) == [m EXCEPT !.hnd[h].direction_fd = m.ret]

\* linux_desc->value_fd = open(...)
SetValueFd(m, h) == [m EXCEPT !.hnd[h].value_fd = m.ret]

\* gpio_get from the test of value_fd: *desc = descriptor
get_after_open_value(m, h) ==
  IF m.hnd[h].value_fd < 0 THEN GetClose(m, h) ELSE Done(m, SUCCESS, TRUE, h)

\* gpio_get from the test of direction_fd: open of the value slot (call 7)
get_after_open_direction(m, h, f) ==
  IF m.hnd[h].direction_fd < 0 THEN GetFree(m, h)
  ELSE get_after_open_value(
         SetValueFd(SysOpen(m, AttrPath("value", m.hnd[h].number), O_WRONLY, f = 7), h), h)

\* gpio_get from the test of close(fd): open of the direction slot (call 6)
get_after_close_export(m, h, f) ==
  IF m.ret < 0 THEN GetFree(m, h)
  ELSE get_after_open_direction(
         SetDirectionFd(SysOpen(m, AttrPath("direction", m.hnd[h].number), O_WRONLY, f = 6), h),
         h, f)

\* gpio_get from the test of write(fd, path, len): close of export (call 5)
get_after_write_export(m, fd, h, f) ==
  IF m.ret < 0 THEN GetFree(SysClose(m, fd, FALSE), h)
  ELSE get_after_close_export(SysClose(m, fd, f = 5), h, f)

\* gpio_get from the test of fd = open(export): write of the number (call 4)
get_after_open_export(m, h, f) ==
  IF m.ret < 0 THEN GetFree(m, h)
  ELSE get_after_write_export(SysWrite(m, m.ret, NumberText(m.hnd[h].number), f = 4),
                              m.ret, h, f)

\* gpio_get from the test of linux_desc: the fields, open of export (call 3)
get_after_malloc_extra(m, h, n, f) ==
  IF m.ret = NULL THEN GetFreeDesc(m, h)
  ELSE get_after_open_export(
         SysOpen([m EXCEPT !.hnd[h].number = n], ExportPath, O_WRONLY, f = 3), h, f)

\* gpio_get from the test of descriptor: malloc of linux_desc (call 2)
get_after_malloc_desc(m, n, f) ==
  IF m.ret = NULL THEN Done(m, FAILURE, FALSE, NULL)
  ELSE get_after_malloc_extra(MallocExtra(m, m.ret, f = 2), m.ret, n, f)

\* gpio_get(desc, param) with param->number = n: malloc of descriptor (call 1)
gpio_get_run(m0, n, f) == get_after_malloc_desc(MallocDesc(m0, f = 1), n, f)

\* Mutant of gpio_get_optional_run: the result of gpio_get is passed on.
gpio_get_optional_run_propagate(m0, n, f) == gpio_get_run(m0, n, f)

\* gpio_get_optional: the result of gpio_get is dropped.
gpio_get_optional_run(m0, n, f) == [gpio_get_run(m0, n, f) EXCEPT !.status = SUCCESS]

\* gpio_remove from the test of close(fd): the two free
remove_after_close_unexport(m, h) ==
  IF m.ret < 0 THEN Done(m, FAILURE, FALSE, NULL)
  ELSE Done(Free(Free(m, "extra", h), "desc", h), SUCCESS, FALSE, NULL)

\* gpio_remove from the test of write(fd, path, len): close of unexport (call 5)
remove_after_write_unexport(m, fd, h, f) ==
  IF m.ret < 0 THEN Done(m, FAILURE, FALSE, NULL)
  ELSE remove_after_close_unexport(SysClose(m, fd, f = 5), h)

\* Mutant of remove_after_open_unexport: the pin number is never written.
remove_after_open_unexport_nowrite(m, h, f) ==
  IF m.ret < 0 THEN Done(m, FAILURE, FALSE, NULL)
  ELSE remove_after_close_unexport(SysClose(m, m.ret, f = 5), h)

\* gpio_remove from the test of fd = open(unexport): write of the number (call 4)
remove_after_open_unexport(m, h, f) ==
  IF m.ret < 0 THEN Done(m, FAILURE, FALSE, NULL)
  ELSE remove_after_write_unexport(
         SysWrite(m, m.ret, NumberText(m.hnd[h].number), f = 4), m.ret, h, f)

\* gpio_remove from the test of close(value_fd): open of unexport (call 3)
remove_after_close_value(m, h, f) ==
  IF m.ret < 0 THEN Done(m, FAILURE, FALSE, NULL)
  ELSE remove_after_open_unexport(SysOpen(m, UnexportPath, O_WRONLY, f = 3), h, f)

\* Mutant of remove_after_close_direction: a failed close is not an error.
remove_after_close_direction_noabort(m, h, f) ==
  remove_after_close_value(SysClose(m, m.hnd[h].value_fd, f = 2), h, f)

\* gpio_remove from the test of close(direction_fd): close of the value slot (call 2)
remove_after_close_direction(m, h, f) ==
  IF m.ret < 0 THEN Done(m, FAILURE, FALSE, NULL)
  ELSE remove_after_close_value(SysClose(m, m.hnd[h].value_fd, f = 2), h, f)

\* gpio_remove(desc): close of the direction slot (call 1)
gpio_remove_run(m0, h, f) ==
  remove_after_close_direction(SysClose(m0, m0.hnd[h].direction_fd, f = 1), h, f)

\* The test of ret that ends gpio_set_value, gpio_direction_input.
ReturnByRet(m) ==
  IF m.ret < 0 THEN Done(m, FAILURE, FALSE, NULL) ELSE Done(m, SUCCESS, FALSE, NULL)

\* Mutant of gpio_set_value_run: only the value 1 is written as "1".
gpio_set_value_run_only1(m0, h, value, fault) ==
  ReturnByRet(IF value = 1
              THEN SysWrite(m0, m0.hnd[h].value_fd, StrHigh, fault)
              ELSE SysWrite(m0, m0.hnd[h].value_fd, StrLow, fault))

\* gpio_set_value(desc, value).  fault: the host fails the write.
gpio_set_value_run(m0, h, value, fault) ==
  ReturnByRet(IF value # 0
              THEN SysWrite(m0, m0.hnd[h].value_fd, StrHigh, fault)
              ELSE SysWrite(m0, m0.hnd[h].value_fd, StrLow, fault))

\* gpio_get_value from the test of ret: decoding of data
get_value_after_read(m) ==
  IF m.ret < 0 THEN Done(m, FAILURE, FALSE, NULL)
  ELSE IF m.data = Ch0 THEN Done(m, SUCCESS, TRUE, GPIO_LOW)
  ELSE Done(m, SUCCESS, TRUE, GPIO_HIGH)

\* gpio_get_value(desc, value).  junk: what the local char data holds on entry.
gpio_get_value_run(m0, h, junk, fault) ==
  get_value_after_read(SysRead([m0 EXCEPT !.data = junk], m0.hnd[h].value_fd, fault))

\* gpio_direction_input(desc)
gpio_direction_input_run(m0, h, fault) ==
  ReturnByRet(SysWrite(m0, m0.hnd[h].direction_fd, StrIn, fault))

\* gpio_direction_output from the test of gpio_set_value's result
direction_output_after_set_value(r) ==
  IF r.status # SUCCESS THEN Done(r.m, FAILURE, FALSE, NULL)
  ELSE Done(r.m, SUCCESS, FALSE, NULL)

\* gpio_direction_output from the test of the direction write: gpio_set_value (call 2)
direction_output_after_write(m, h, value, f) ==
  IF m.ret < 0 THEN Done(m, FAILURE, FALSE, NULL)
  ELSE direction_output_after_set_value(gpio_set_value_run(m, h, value, f = 2))

\* gpio_direction_output(desc, value): write of "out" (call 1)
gpio_direction_output_run(m0, h, value, f) ==
  direction_output_after_write(SysWrite(m0, m0.hnd[h].direction_fd, StrOut, f = 1),
                               h, value, f)

\* ---------------------------------------------------------------- actions
\* Values a caller passes as uint8_t value.
Values == {0, 1, 2}

NoCall ==
  [op |-> "none", slot |-> "a", h |-> NULL, number |-> -1, value |-> 0,
   status |-> SUCCESS, inner |-> SUCCESS, trace |-> <<>>, descBefore |-> NULL,
   valueBefore |-> GPIO_LOW, dfd |-> -1, vfd |-> -1, wrote |-> FALSE,
   faulted |-> FALSE, vfdOpen |-> FALSE, wasExported |-> FALSE,
   after |-> "none", afterValue |-> 0]

\* The host and heap after a call.
Commit(r) ==
  /\ fds' = r.m.fds
  /\ exported' = r.m.exported
  /\ dir' = r.m.dir
  /\ outv' = r.m.outv
  /\ heap' = r.m.heap
  /\ hnd' = r.m.hnd
  /\ UNCHANGED wire

\* The last successful call on handle h, if it is the call that ran last.
After(h) == IF last.h = h /\ last.status = SUCCESS THEN last.op ELSE "none"

Call(op, s, h, r) ==
  [NoCall EXCEPT !.op = op, !.slot = s, !.h = h, !.status = r.status, !.inner = r.inner,
                 !.wrote = r.wrote, !.faulted = r.m.faulted,
                 !.trace = r.m.trace, !.descBefore = callerDesc[s],
                 !.valueBefore = callerValue,
                 !.dfd = IF h = NULL THEN -1 ELSE hnd[h].direction_fd,
                 !.vfd = IF h = NULL THEN -1 ELSE hnd[h].value_fd,
                 !.vfdOpen = IF h = NULL THEN FALSE ELSE IsOpen(Machine, hnd[h].value_fd),
                 !.wasExported = IF h = NULL THEN FALSE ELSE hnd[h].number \in exported,
                 !.number = IF h = NULL THEN -1 ELSE hnd[h].number]

\* What a call leaves in the caller's variables, per function: gpio_get and
\* gpio_get_optional write *desc and gpio_get_value writes *value.  gpio_remove
\* takes the pointer by value: the caller's variable keeps it, a handle still
\* allocated when gpio_remove failed and a dangling pointer when it succeeded.
Returned(op, s, r) ==
  /\ Commit(r)
  /\ callerDesc' = IF op \in {"gpio_get", "gpio_get_optional"} /\ r.wrote
                   THEN [callerDesc EXCEPT ![s] = r.out]
                   ELSE callerDesc
  /\ callerValue' = IF op = "gpio_get_value" /\ r.wrote THEN r.out ELSE callerValue

\* The caller passes only pointers to descriptors that are allocated: not
\* NULL, and not the pointer a successful gpio_remove has freed.
Valid(s) == callerDesc[s] # NULL /\ <<"desc", callerDesc[s]>> \in heap

gpio_get(s, n, f) ==
  /\ Returned("gpio_get", s, gpio_get_run(Machine, n, f))
  /\ last' = [Call("gpio_get", s, NULL, gpio_get_run(Machine, n, f)) EXCEPT !.number = n]

gpio_get_optional(s, n, f) ==
  /\ Returned("gpio_get_optional", s, gpio_get_optional_run(Machine, n, f))
  /\ last' = [Call("gpio_get_optional", s, NULL, gpio_get_optional_run(Machine, n, f))
                EXCEPT !.number = n]

gpio_remove(s, f) ==
  /\ Valid(s)
  /\ Returned("gpio_remove", s, gpio_remove_run(Machine, callerDesc[s], f))
  /\ last' = Call("gpio_remove", s, callerDesc[s], gpio_remove_run(Machine, callerDesc[s], f))

gpio_set_value(s, v, fault) ==
  /\ Valid(s)
  /\ Returned("gpio_set_value", s, gpio_set_value_run(Machine, callerDesc[s], v, fault))
  /\ last' = [Call("gpio_set_value", s, callerDesc[s],
                   gpio_set_value_run(Machine, callerDesc[s], v, fault)) EXCEPT !.value = v]

gpio_get_value(s, junk, fault) ==
  /\ Valid(s)
  /\ Returned("gpio_get_value", s, gpio_get_value_run(Machine, callerDesc[s], junk, fault))
  /\ last' = [Call("gpio_get_value", s, callerDesc[s],
                   gpio_get_value_run(Machine, callerDesc[s], junk, fault)) EXCEPT
                !.after = After(callerDesc[s]), !.afterValue = last.value]

gpio_direction_input(s, fault) ==
  /\ Valid(s)
  /\ Returned("gpio_direction_input", s, gpio_direction_input_run(Machine, callerDesc[s], fault))
  /\ last' = Call("gpio_direction_input", s, callerDesc[s],
                  gpio_direction_input_run(Machine, callerDesc[s], fault))

gpio_direction_output(s, v, f) ==
  /\ Valid(s)
  /\ Returned("gpio_direction_output", s, gpio_direction_output_run(Machine, callerDesc[s], v, f))
  /\ last' = [Call("gpio_direction_output", s, callerDesc[s],
                   gpio_direction_output_run(Machine, callerDesc[s], v, f)) EXCEPT !.value = v]

\* The state before the first call.  The host is Linux: no pin exported, the
\* pin an input, descriptors 3.. free.
Init ==
  /\ fds = [fd \in FdNums |-> Closed]
  /\ exported = {}
  /\ dir = [p \in KernelPins |-> "in"]
  /\ outv = [p \in KernelPins |-> 0]
  /\ wire \in [KernelPins -> {0, 1}]
  /\ heap = {}
  /\ hnd = [h \in Handles |-> NoFields]
  /\ callerDesc = [s \in Slots |-> NULL]
  /\ callerValue \in {GPIO_LOW, GPIO_HIGH}
  /\ last = NoCall

Next ==
  \/ \E s \in Slots, n \in Pins, f \in 0..7 : gpio_get(s, n, f)
  \/ \E s \in Slots, n \in Pins, f \in 0..7 : gpio_get_optional(s, n, f)
  \/ \E s \in Slots, f \in 0..5 : gpio_remove(s, f)
  \/ \E s \in Slots, v \in Values, fault \in BOOLEAN : gpio_set_value(s, v, fault)
  \/ \E s \in Slots, junk \in Garbage, fault \in BOOLEAN : gpio_get_value(s, junk, fault)
  \/ \E s \in Slots, fault \in BOOLEAN : gpio_direction_input(s, fault)
  \/ \E s \in Slots, v \in Values, f \in 0..2 : gpio_direction_output(s, v, f)

Spec == Init /\ [][Next]_vars

TypeOK ==
  /\ exported \subseteq KernelPins
  /\ \A s \in Slots : callerDesc[s] \in Handles \cup {NULL}
  /\ callerValue \in {GPIO_LOW, GPIO_HIGH}

\* ================================================================= claims
T == last.trace

IsSyscall(e) == e.call \in {"open", "close", "read", "write"}

\* Every system call of the last call returned a non-negative value.
AllSyscallsOk == \A i \in 1..Len(T) : IsSyscall(T[i]) => T[i].ret >= 0

LevelOf(v) == IF v # 0 THEN GPIO_HIGH ELSE GPIO_LOW

\* The last call wrote the pin number to the export file and the kernel took it.
ExportWritten ==
  \E i \in 1..Len(T) : T[i].call = "write" /\ T[i].obj = "export" /\ T[i].ret >= 0

\* ---- C1
\* C1 as stated: a gpio_remove on a handle that a successful gpio_get returned
\* returns SUCCESS, and afterwards the pin is no longer exported.
C1_AsStated ==
  last.op = "gpio_remove" => (last.status = SUCCESS /\ last.number \notin exported)

\* C1 amended: a gpio_remove on a handle that a successful gpio_get returned
\* returns SUCCESS unless one of its system calls fails, and whenever it returns
\* SUCCESS the pin is no longer exported.
C1_RemoveUnexports ==
  last.op = "gpio_remove" =>
    /\ AllSyscallsOk => last.status = SUCCESS
    /\ last.status = SUCCESS => last.number \notin exported

C1_Witness ==
  /\ last.op = "gpio_remove" /\ last.status = SUCCESS
  /\ last.number = 17 /\ 17 \notin exported /\ Len(T) = 7

\* ---- C2
\* C2 as stated: a gpio_get_value that follows a successful
\* gpio_direction_output(h, v) on the same handle, the host failing no call of
\* its own account, returns SUCCESS and sets the output to the level of v.
C2_ReadBack ==
  (last.op = "gpio_get_value" /\ last.after = "gpio_direction_output" /\ ~last.faulted) =>
    (last.status = SUCCESS /\ callerValue = LevelOf(last.afterValue))

\* ---- C3
\* C3 as stated: when gpio_get returns FAILURE after the export file took the
\* pin number, the pin is not left exported.
C3_FailedGetUnexports ==
  (last.op = "gpio_get" /\ last.status = FAILURE /\ ExportWritten) =>
    last.number \notin exported

\* ---- C4
\* Every descriptor an open of the last call returned was closed later in that
\* call and is closed now.
OpenedAllClosed ==
  \A i \in 1..Len(T) :
    (T[i].call = "open" /\ T[i].ret >= 0) =>
      /\ \E j \in (i + 1)..Len(T) : T[j].call = "close" /\ T[j].fd = T[i].ret
      /\ fds[T[i].ret] = Closed

\* Every block a malloc of the last call returned was freed later in that call
\* and is free now.
MallocedAllFreed ==
  \A i \in 1..Len(T) :
    (T[i].call = "malloc" /\ T[i].ret # NULL) =>
      /\ \E j \in (i + 1)..Len(T) :
           T[j].call = "free" /\ T[j].obj = T[i].obj /\ T[j].ret = T[i].ret
      /\ <<T[i].obj, T[i].ret>> \notin heap

\* The log of a gpio_get that went through: both blocks, the export written
\* and closed, then the direction and the value slot opened.
GetWentThrough ==
  /\ Len(T) = 7
  /\ T[1].call = "malloc" /\ T[1].obj = "desc" /\ T[1].ret # NULL
  /\ T[2].call = "malloc" /\ T[2].obj = "extra" /\ T[2].ret # NULL
  /\ T[3].call = "open" /\ T[3].obj = "export" /\ T[3].ret >= 0
  /\ T[4].call = "write" /\ T[4].fd = T[3].ret /\ T[4].ret >= 0
  /\ T[5].call = "close" /\ T[5].fd = T[3].ret /\ T[5].ret >= 0
  /\ T[6].call = "open" /\ T[6].obj = "direction" /\ T[6].ret >= 0
  /\ T[7].call = "open" /\ T[7].obj = "value" /\ T[7].ret >= 0

\* C4: when gpio_get returns FAILURE no descriptor it opened remains open, both
\* its allocations are freed and *desc is not written; *desc is written only when
\* it returns SUCCESS, after the export was written and closed and both slots
\* were opened.
C4_FailedGetUnwinds ==
  last.op = "gpio_get" =>
    /\ last.status = FAILURE =>
         /\ OpenedAllClosed
         /\ MallocedAllFreed
         /\ ~last.wrote
         /\ callerDesc[last.slot] = last.descBefore
    /\ last.wrote => (last.status = SUCCESS /\ GetWentThrough)

\* A gpio_get that failed at the last step, the open of the value slot.
C4_Witness ==
  /\ last.op = "gpio_get" /\ last.status = FAILURE
  /\ Len(T) > 7 /\ T[7].call = "open" /\ T[7].obj = "value" /\ T[7].ret < 0
  /\ T[6].ret >= 0 /\ fds[T[6].ret] = Closed

\* ---- C5
\* C5: gpio_get_optional returns SUCCESS whatever gpio_get returned; the
\* caller's handle is a new handle exactly when gpio_get succeeded and is
\* otherwise what it was before the call.
C5_OptionalAlwaysSucceeds ==
  last.op = "gpio_get_optional" =>
    /\ last.status = SUCCESS
    /\ last.inner = SUCCESS =>
         /\ last.wrote
         /\ callerDesc[last.slot] # NULL
         /\ T[1].call = "malloc" /\ callerDesc[last.slot] = T[1].ret
         /\ <<"desc", callerDesc[last.slot]>> \in heap
    /\ last.inner = FAILURE =>
         /\ ~last.wrote
         /\ callerDesc[last.slot] = last.descBefore

\* A gpio_get_optional whose gpio_get failed while the caller held a handle.
C5_Witness ==
  /\ last.op = "gpio_get_optional" /\ last.inner = FAILURE
  /\ last.descBefore # NULL /\ callerDesc[last.slot] = last.descBefore

\* ---- C7
\* The steps of gpio_remove, in order.
RemoveStep(i) ==
  CASE i = 1 -> T[1].call = "close" /\ T[1].fd = last.dfd
    [] i = 2 -> T[2].call = "close" /\ T[2].fd = last.vfd
    [] i = 3 -> T[3].call = "open" /\ T[3].obj = "unexport"
    [] i = 4 -> /\ T[4].call = "write" /\ T[4].fd = T[3].ret
                /\ T[4].obj = "unexport" /\ ParseDec(T[4].arg) = last.number
    [] i = 5 -> T[5].call = "close" /\ T[5].fd = T[3].ret
    [] i = 6 -> T[6].call = "free" /\ T[6].obj = "extra" /\ T[6].ret = last.h
    [] i = 7 -> T[7].call = "free" /\ T[7].obj = "desc" /\ T[7].ret = last.h
    [] OTHER -> FALSE

StepOk(i) == IF IsSyscall(T[i]) THEN T[i].ret >= 0 ELSE TRUE

\* C7: gpio_remove closes the direction slot, closes the value slot, opens
\* unexport, writes the pin number, closes unexport and frees the handle, in
\* that order; it stops at the first step that fails, running no later step and
\* undoing no earlier one; the handle is freed exactly when it returns SUCCESS.
C7_RemoveOrder ==
  last.op = "gpio_remove" =>
    /\ Len(T) >= 1
    /\ \A i \in 1..Len(T) : RemoveStep(i)
    /\ \A i \in 1..(Len(T) - 1) : StepOk(i)
    /\ last.status = SUCCESS <=> (Len(T) = 7 /\ StepOk(5))
    /\ last.status = FAILURE <=> (Len(T) <= 5 /\ ~StepOk(Len(T)))
    /\ last.status = SUCCESS <=>
         (<<"desc", last.h>> \notin heap /\ <<"extra", last.h>> \notin heap)
    /\ last.status = FAILURE =>
         (<<"desc", last.h>> \in heap /\ <<"extra", last.h>> \in heap)
    /\ (Len(T) = 1 /\ T[1].ret < 0) =>
         /\ (fds[last.vfd] # Closed) <=> last.vfdOpen
         /\ (last.number \in exported) <=> last.wasExported

\* A gpio_remove whose close of the direction slot failed.
C7_Witness ==
  /\ last.op = "gpio_remove" /\ last.status = FAILURE
  /\ Len(T) = 1 /\ T[1].ret < 0 /\ last.vfdOpen /\ fds[last.vfd] # Closed
  /\ last.number \in exported

\* ---- C8
\* C8: gpio_direction_output writes "out" and a NUL, 4 bytes, to the direction
\* slot and only then "1" or "0" and a NUL, 2 bytes, to the value slot ("1" when
\* the value is non-zero); it returns SUCCESS exactly when both writes return a
\* non-negative count; a failed direction write leaves the value slot unwritten,
\* and a failed value write leaves the direction as the first write set it.
C8_DirectionThenValue ==
  last.op = "gpio_direction_output" =>
    /\ Len(T) >= 1
    /\ T[1].call = "write" /\ T[1].fd = last.dfd
    /\ T[1].arg = <<111, 117, 116, 0>>
    /\ T[1].ret < 0 => (Len(T) = 1 /\ last.status = FAILURE)
    /\ T[1].ret >= 0 =>
         /\ Len(T) = 2
         /\ T[2].call = "write" /\ T[2].fd = last.vfd
         /\ T[2].arg = (IF last.value # 0 THEN <<49, 0>> ELSE <<48, 0>>)
         /\ last.status = SUCCESS <=> T[2].ret >= 0
         /\ T[2].ret < 0 => dir[last.number] = "out"

\* A gpio_direction_output whose value write failed after the direction was set.
C8_Witness ==
  /\ last.op = "gpio_direction_output" /\ last.status = FAILURE
  /\ Len(T) = 2 /\ T[1].ret >= 0 /\ T[2].ret < 0 /\ dir[last.number] = "out"

\* ---- C9
\* C9 as stated: after gpio_get or gpio_remove returns, whatever it returns, no
\* descriptor of the export or the unexport file is open.
C9_ExportFilesClosed ==
  \A fd \in FdNums : fds[fd].kind \notin {"export", "unexport"}

====
